---- MODULE Spec2Model ----
(***************************************************************************)
(* Model of r.in.landsat8.py: get_metadata (the MTL parser),               *)
(* dn_to_reflectance (the per-band import / region / mapcalc pipeline)     *)
(* and main (the loop over the scene directories).                         *)
(*                                                                         *)
(* Text is a sequence of tokens.  A token is one character, except the     *)
(* marker substrings the parser searches for and the "BAND_" infix, which  *)
(* are kept whole, so that "marker in line" is membership of the token.    *)
(* Numbers are fixed-point integers counting units of 10^-Prec.            *)
(***************************************************************************)
EXTENDS Integers, Sequences, FiniteSets, TLC

\* ------------------------------------------------------------------------
\* Bounds of the model
\* ------------------------------------------------------------------------
MaxLines == 2
MaxScenes == 2
MaxBands == 2

\* Decimal digits written by '{:f}'.format (the default precision of 'f').
FmtDigits == 6
\* Decimal digits kept by the fixed-point representation of a float: one
\* more than formatting keeps.
Prec == FmtDigits + 1

\* ------------------------------------------------------------------------
\* Strings
\* ------------------------------------------------------------------------
MULT == "REFLECTANCE_MULT_"
ADD == "REFLECTANCE_ADD_"
SUN == "SUN_ELEVATION"
BAND == "BAND_"
Markers == <<MULT, ADD, SUN>>

Digits == <<"0", "1", "2", "3", "4", "5", "6", "7", "8", "9">>
DigitSet == {Digits[i] : i \in 1..10}
DigitVal(c) == (CHOOSE i \in 1..10 : Digits[i] = c) - 1
White == {" ", "\n"}

Contains(s, tok) == \E i \in 1..Len(s) : s[i] = tok
FirstIdx(s, tok) == IF Contains(s, tok)
                    THEN CHOOSE i \in 1..Len(s) :
                             s[i] = tok /\ \A j \in 1..(i-1) : s[j] # tok
                    ELSE 0

\* str.split(sep): every occurrence of sep separates two parts.
RECURSIVE Split(_, _)
Split(s, sep) ==
    LET i == FirstIdx(s, sep)
    IN IF i = 0 THEN <<s>>
       ELSE <<SubSeq(s, 1, i-1)>> \o Split(SubSeq(s, i+1, Len(s)), sep)

\* str.strip(): drops leading and trailing whitespace.
RECURSIVE Strip(_)
Strip(s) ==
    IF s = <<>> THEN s
    ELSE IF s[1] \in White THEN Strip(Tail(s))
    ELSE IF s[Len(s)] \in White THEN Strip(SubSeq(s, 1, Len(s)-1))
    ELSE s

\* str.lower() on the letters scene names are built from.
LowerChar(c) == IF c = "L" THEN "l" ELSE c
Lower(s) == [i \in 1..Len(s) |-> LowerChar(s[i])]

AllDigits(s) == \A i \in 1..Len(s) : s[i] \in DigitSet

RECURSIVE DigitsVal(_)
DigitsVal(s) == IF s = <<>> THEN 0
                ELSE 10 * DigitsVal(SubSeq(s, 1, Len(s)-1)) + DigitVal(s[Len(s)])

RECURSIVE Pow10(_)
Pow10(n) == IF n <= 0 THEN 1 ELSE 10 * Pow10(n-1)

Unsigned(s) == IF s # <<>> /\ s[1] \in {"-", "+"} THEN Tail(s) ELSE s
Negative(s) == s # <<>> /\ s[1] = "-"

\* The pieces float() reads: sign, integer digits, fraction digits, exponent.
FloatParts(s) ==
    LET t == Strip(s)
        body == Unsigned(t)
        e == FirstIdx(body, "E")
        mant == IF e = 0 THEN body ELSE SubSeq(body, 1, e-1)
        expo == IF e = 0 THEN <<>> ELSE SubSeq(body, e+1, Len(body))
        p == FirstIdx(mant, ".")
    IN [neg |-> Negative(t),
        ip |-> IF p = 0 THEN mant ELSE SubSeq(mant, 1, p-1),
        fp |-> IF p = 0 THEN <<>> ELSE SubSeq(mant, p+1, Len(mant)),
        hasExp |-> e # 0,
        eneg |-> Negative(expo),
        ed |-> Unsigned(expo)]

\* float(s) succeeds: a decimal literal, with or without exponent.
IsFloat(s) ==
    LET f == FloatParts(s)
    IN /\ AllDigits(f.ip) /\ AllDigits(f.fp)
       /\ Len(f.ip) + Len(f.fp) > 0
       /\ f.hasExp => (AllDigits(f.ed) /\ f.ed # <<>>)

\* float(s) in units of 10^-Prec (digits below 10^-Prec are dropped; the
\* literals of the model have none).
FloatVal(s) ==
    LET f == FloatParts(s)
        m == DigitsVal(f.ip \o f.fp)
        ev == IF f.eneg THEN 0 - DigitsVal(f.ed) ELSE DigitsVal(f.ed)
        sh == Prec + ev - Len(f.fp)
        mag == IF sh >= 0 THEN m * Pow10(sh) ELSE m \div Pow10(0 - sh)
    IN IF f.neg THEN 0 - mag ELSE mag

\* '{:f}'.format(v): the number the formatted text denotes, i.e. v rounded
\* to FmtDigits decimals (ties to even).
FormatF(v) ==
    LET u == Pow10(Prec - FmtDigits)
        q == v \div u
        r == v % u
    IN IF 2 * r < u THEN q * u
       ELSE IF 2 * r > u THEN (q + 1) * u
       ELSE IF q % 2 = 0 THEN q * u ELSE (q + 1) * u

\* ------------------------------------------------------------------------
\* get_metadata
\* ------------------------------------------------------------------------
EmptyTab == [k \in {} |-> 0]

\* Mutant of Put: an entry already stored is kept (first occurrence wins).
PutKeepFirst(tab, k, v) ==
    [x \in (DOMAIN tab) \cup {k} |-> IF x \in DOMAIN tab THEN tab[x] ELSE v]

\* mtl_dict[key] = val
Put(tab, k, v) == [x \in (DOMAIN tab) \cup {k} |-> IF x = k THEN v ELSE tab[x]]

\* An exception leaves get_metadata: no table is returned.
Raise(kind) == [ok |-> FALSE, err |-> kind, tab |-> EmptyTab]
NewDict == [ok |-> TRUE, err |-> "", tab |-> EmptyTab]

\* Mutant of ParseMarker: a marker line that does not parse is skipped.
ParseMarkerLenient(res, line, marker) ==
    IF ~res.ok \/ ~Contains(line, marker) THEN res
    ELSE LET parts == Split(line, "=")
         IN IF Len(parts) # 2 THEN res
            ELSE IF ~IsFloat(parts[2]) THEN res
            ELSE [ok |-> TRUE, err |-> "",
                  tab |-> Put(res.tab, Strip(parts[1]), FloatVal(parts[2]))]

\* One of the three "if <marker> in lines[i]" blocks.
ParseMarker(res, line, marker) ==
    IF ~res.ok \/ ~Contains(line, marker) THEN res
    ELSE LET parts == Split(line, "=")
         IN IF Len(parts) # 2 THEN Raise("ValueError")
            ELSE IF ~IsFloat(parts[2]) THEN Raise("ValueError")
            ELSE [ok |-> TRUE, err |-> "",
                  tab |-> Put(res.tab, Strip(parts[1]), FloatVal(parts[2]))]

\* The body of the for loop: the three blocks in turn.
ParseLine(res, line) ==
    ParseMarker(ParseMarker(ParseMarker(res, line, MULT), line, ADD), line, SUN)

RECURSIVE ParseLines(_, _)
ParseLines(res, lines) ==
    IF lines = <<>> THEN res
    ELSE ParseLines(ParseLine(res, Head(lines)), Tail(lines))

\* Mutant of get_metadata: a scene without metadata file gets an empty table.
get_metadata_skip(file) ==
    IF ~file.exists THEN NewDict
    ELSE ParseLines(NewDict, file.lines)

\* get_metadata: open() fails on a missing file; otherwise the lines are
\* parsed in order.  ok = FALSE stands for the exception raised.
get_metadata(file) ==
    IF ~file.exists THEN Raise("IOError")
    ELSE ParseLines(NewDict, file.lines)

\* ------------------------------------------------------------------------
\* Inputs: metadata files, directory listings, the bands option
\* ------------------------------------------------------------------------
L_other == <<"x", " ", "=", " ", "y", "\n">>
L_mult1 == <<MULT, BAND, "1", " ", "=", " ", "2", ".", "0", "E", "-", "0", "5", "\n">>
L_mult1fine == <<MULT, BAND, "1", " ", "=", " ", "1", ".", "2", "E", "-", "0", "6", "\n">>
L_add1 == <<ADD, BAND, "1", " ", "=", " ", "-", "0", ".", "1", "\n">>
L_mult2 == <<MULT, BAND, "2", "=", "3", ".", "0", "E", "-", "0", "5", "\n">>
L_add2 == <<ADD, BAND, "2", "=", "-", "0", ".", "2", "\n">>
L_sun == <<" ", " ", SUN, " ", "=", " ", "6", "0", ".", "5", "\n">>
L_sunfine == <<SUN, " ", "=", " ", "6", "0", ".", "1", "2", "3", "4", "5", "6", "7", "\n">>
L_sunneg == <<SUN, " ", "=", " ", "-", "5", ".", "5">>
L_sunhigh == <<SUN, " ", "=", " ", "9", "5", ".", "0", "\n">>
L_noeq == <<MULT, BAND, "1", " ", "x", "\n">>
L_badnum == <<ADD, BAND, "1", " ", "=", " ", "x", "\n">>
L_twoeq == <<MULT, BAND, "1", " ", "=", " ", "1", "=", "2", "\n">>
L_rhsmark == <<"x", " ", "=", " ", SUN, "\n">>
L_twomark == <<MULT, BAND, "1", " ", ADD, BAND, "1", "=", ".", "5", "\n">>

\* The lines the parser is exercised on.
ParseLinesSet == {L_other, L_mult1, L_mult1fine, L_add1, L_sun, L_sunhigh,
                  L_noeq, L_badnum, L_twoeq, L_rhsmark, L_twomark}

RECURSIVE SeqsUpTo(_, _)
SeqsUpTo(S, n) ==
    IF n = 0 THEN {<<>>}
    ELSE LET R == SeqsUpTo(S, n-1)
         IN R \cup {Append(r, x) : r \in {q \in R : Len(q) = n-1}, x \in S}

File(ls) == [exists |-> TRUE, lines |-> ls]
NoFile == [exists |-> FALSE, lines |-> <<>>]

\* The metadata files of the scenes of a run.
F_good == File(<<L_other, L_mult1, L_add1, L_mult2, L_add2, L_sunhigh>>)
F_fine == File(<<L_mult1fine, L_add1, L_sunfine>>)
F_noadd == File(<<L_mult1, L_mult2, L_add2, L_sunneg>>)
F_bad == File(<<L_mult1, L_add1, L_sun, L_noeq>>)
F_badnum == File(<<L_sunhigh, L_badnum>>)
MtlFiles == {F_good, F_fine, F_noadd}
BadFiles == {NoFile, F_bad, F_badnum}

\* The band files <SCENE>_B<n>.TIF a scene directory may hold.
AllTifs == {<<"1">>, <<"2">>}
TifSets(f) == IF f = F_good THEN {AllTifs, {<<"2">>}} ELSE {AllTifs}

\* The i-th name of the listing: L1, l1, L2, l2, ...
SceneName(i) == <<IF i % 2 = 1 THEN "L" ELSE "l", Digits[((i + 1) \div 2) + 1]>>

Entries(i) ==
    {[name |-> SceneName(i), isdir |-> FALSE, mtl |-> NoFile, tifs |-> {}]}
    \cup {[name |-> SceneName(i), isdir |-> TRUE, mtl |-> f, tifs |-> {}] : f \in BadFiles}
    \cup UNION {{[name |-> SceneName(i), isdir |-> TRUE, mtl |-> f, tifs |-> t] :
                    t \in TifSets(f)} : f \in MtlFiles}

RECURSIVE Listings(_)
Listings(n) ==
    IF n = 0 THEN {<<>>}
    ELSE LET R == Listings(n-1)
         IN R \cup {Append(r, e) : r \in {q \in R : Len(q) = n-1}, e \in Entries(n)}

\* Values the option parser accepts for a field of "type: integer".
IntLits == {<<"1">>, <<"2">>}

RECURSIVE Join(_)
Join(fields) == IF Len(fields) = 1 THEN fields[1]
                ELSE fields[1] \o <<",">> \o Join(Tail(fields))

\* options['bands']: empty when the option is not given.
BandsOptions == {IF fs = <<>> THEN <<>> ELSE Join(fs) : fs \in SeqsUpTo(IntLits, MaxBands)}

\* ------------------------------------------------------------------------
\* State
\* ------------------------------------------------------------------------
VARIABLES
    bands_opt,   \* options['bands']
    listing,     \* os.listdir(top_dir), with what each entry holds
    apiRaises,   \* run_command raises on a failed module (else returns its exit status)
    pc,          \* position in the script
    d,           \* index of the current entry of dirs
    metadata,    \* result of get_metadata for the current scene
    bi,          \* index of the current band in band_list
    cnt,         \* cnt of dn_to_reflectance
    layers,      \* the raster engine's layer namespace: name -> content
    region,      \* the raster engine's current region
    log,         \* the calls made so far, in order
    run,         \* number of the current run of dn_to_reflectance
    first,       \* what the first run of dn_to_reflectance left
    err          \* the exception that ended the script, "" if none

vars == <<bands_opt, listing, apiRaises, pc, d, metadata, bi, cnt, layers,
          region, log, run, first, err>>

\* band_list = options['bands'].split(',')
band_list == Split(bands_opt, ",")

NoLayers == [n \in {} |-> <<>>]
NoExpr == [out |-> <<>>, mult |-> 0, rast |-> <<>>, add |-> 0, zenith |-> 0]
NoFirst == [pc |-> "", layers |-> NoLayers, region |-> <<>>, log |-> <<>>]

\* rast = basedir.lower()+"_b"+str(b)
Rast(name, b) == Lower(name) \o <<"_b">> \o b
\* rho = rast+"_reflect"
Rho(name, b) == Rast(name, b) \o <<"_reflect">>

MultKey(b) == <<MULT, BAND>> \o b
AddKey(b) == <<ADD, BAND>> \o b
SunKey == <<SUN>>

Event(op, b, layer, expr, ok) ==
    [op |-> op, scene |-> d, pos |-> bi, band |-> b, layer |-> layer,
     expr |-> expr, ok |-> ok, cnt |-> cnt]

\* ------------------------------------------------------------------------
\* The raster engine, as the script calls it
\* ------------------------------------------------------------------------
Bind(lays, name, content) ==
    [n \in (DOMAIN lays) \cup {name} |-> IF n = name THEN content ELSE lays[n]]

\* Mutant of r_in_gdal: without overwrite, an existing layer makes it fail.
r_in_gdal_keep(lays, name, path, present) ==
    [ok |-> present /\ name \notin DOMAIN lays,
     layers |-> IF present /\ name \notin DOMAIN lays
                THEN Bind(lays, name, <<"dn", path>>) ELSE lays]

\* r.in.gdal input=path output=name overwrite=True: fails when the TIF is
\* not there; an existing layer of that name is replaced.
r_in_gdal(lays, name, path, present) ==
    [ok |-> present,
     layers |-> IF present THEN Bind(lays, name, <<"dn", path>>) ELSE lays]

\* g.region rast=name: fails when there is no such layer.
g_region(lays, reg, name) ==
    [ok |-> name \in DOMAIN lays,
     region |-> IF name \in DOMAIN lays THEN <<"of", lays[name]>> ELSE reg]

\* r.mapcalc expr overwrite=True: fails when the input layer is not there;
\* the result depends on the expression, the input layer and the region.
r_mapcalc(lays, reg, expr) ==
    [ok |-> expr.rast \in DOMAIN lays,
     layers |-> IF expr.rast \in DOMAIN lays
                THEN Bind(lays, expr.out, <<"calc", expr, lays[expr.rast], reg>>)
                ELSE lays]

\* ------------------------------------------------------------------------
\* main
\* ------------------------------------------------------------------------
\* for d in dirs: if os.path.isdir(tile_path): ...
NextDir ==
    /\ pc = "main"
    /\ IF d > Len(listing) THEN pc' = "done" /\ d' = d
       ELSE IF ~listing[d].isdir THEN pc' = pc /\ d' = d + 1
       ELSE pc' = "meta" /\ d' = d
    /\ UNCHANGED <<bands_opt, listing, apiRaises, metadata, bi, cnt, layers,
                   region, log, run, first, err>>

\* metadata = get_metadata(tile_path, band_list)
GetMetadata ==
    /\ pc = "meta"
    /\ LET r == get_metadata(listing[d].mtl)
       IN /\ metadata' = r
          /\ log' = Append(log, Event("read", <<>>, <<>>, NoExpr, r.ok))
          /\ pc' = IF r.ok THEN "import" ELSE "error"
          /\ err' = r.err
    /\ bi' = 1
    /\ cnt' = 0
    /\ UNCHANGED <<bands_opt, listing, apiRaises, d, layers, region, run, first>>

\* dn_to_reflectance returned: next entry of dirs.
Return ==
    /\ pc = "return"
    /\ pc' = "main"
    /\ d' = d + 1
    /\ UNCHANGED <<bands_opt, listing, apiRaises, metadata, bi, cnt, layers,
                   region, log, run, first, err>>

\* ------------------------------------------------------------------------
\* dn_to_reflectance
\* ------------------------------------------------------------------------
\* grass.run_command('r.in.gdal', input=tif_path, output=rast, overwrite=True)
\* The script drops the value run_command returns.  Of the GRASS 7.0 series
\* the header names, 7.0.0 returns the exit status of a failed module
\* (apiRaises = FALSE) and later releases raise CalledModuleError
\* (apiRaises = TRUE).
Import ==
    /\ pc = "import"
    /\ bi <= Len(band_list)
    /\ LET b == band_list[bi]
           rast == Rast(listing[d].name, b)
           r == r_in_gdal(layers, rast, <<listing[d].name, b>>, b \in listing[d].tifs)
       IN /\ layers' = r.layers
          /\ log' = Append(log, Event("import", b, rast, NoExpr, r.ok))
          /\ pc' = IF r.ok \/ ~apiRaises THEN "region" ELSE "error"
          /\ err' = IF r.ok \/ ~apiRaises THEN err ELSE "CalledModuleError"
    /\ UNCHANGED <<bands_opt, listing, apiRaises, d, metadata, bi, cnt, region,
                   run, first>>

\* grass.run_command('g.region', rast=rast, flags='p')
SetRegion ==
    /\ pc = "region"
    /\ LET b == band_list[bi]
           rast == Rast(listing[d].name, b)
           r == g_region(layers, region, rast)
       IN /\ region' = r.region
          /\ log' = Append(log, Event("region", b, rast, NoExpr, r.ok))
          /\ pc' = IF r.ok \/ ~apiRaises THEN "calc" ELSE "error"
          /\ err' = IF r.ok \/ ~apiRaises THEN err ELSE "CalledModuleError"
    /\ UNCHANGED <<bands_opt, listing, apiRaises, d, metadata, bi, cnt, layers,
                   run, first>>

\* Mutant of Lookup: dict.get(key, 0.0), a missing key reads as zero.
LookupDefault(tab, k) ==
    [found |-> TRUE, val |-> IF k \in DOMAIN tab THEN tab[k] ELSE 0]

\* dict[key]: found = FALSE stands for the KeyError raised.
Lookup(tab, k) ==
    [found |-> k \in DOMAIN tab, val |-> IF k \in DOMAIN tab THEN tab[k] ELSE 0]

\* expr = rho+" = ("+mult+"*"+rast+"+("+add+"))/cos("+zenith+")"
Expr(name, tab, b) ==
    [out |-> Rho(name, b),
     mult |-> FormatF(Lookup(tab, MultKey(b)).val),
     rast |-> Rast(name, b),
     add |-> FormatF(Lookup(tab, AddKey(b)).val),
     zenith |-> FormatF(90 * Pow10(Prec) - Lookup(tab, SunKey).val)]

\* The three dict lookups succeed.
HasKeys(tab, b) ==
    /\ Lookup(tab, MultKey(b)).found
    /\ Lookup(tab, AddKey(b)).found
    /\ Lookup(tab, SunKey).found

\* Mutant of Incr: the count is not advanced.
IncrStuck(c) == c

\* cnt += 1
Incr(c) == c + 1

\* The dict lookups, the expression, grass.mapcalc(expr, overwrite=True),
\* cnt += 1.  mapcalc ends the script (grass.fatal) when r.mapcalc fails.
Calc ==
    /\ pc = "calc"
    /\ LET b == band_list[bi]
           name == listing[d].name
       IN IF ~HasKeys(metadata.tab, b)
          THEN /\ pc' = "error"
               /\ err' = "KeyError"
               /\ UNCHANGED <<layers, log, cnt, bi>>
          ELSE LET expr == Expr(name, metadata.tab, b)
                   r == r_mapcalc(layers, region, expr)
               IN /\ log' = Append(log, Event("mapcalc", b, expr.out, expr, r.ok))
                  /\ layers' = r.layers
                  /\ pc' = IF r.ok THEN "import" ELSE "error"
                  /\ err' = IF r.ok THEN err ELSE "fatal"
                  /\ cnt' = IF r.ok THEN Incr(cnt) ELSE cnt
                  /\ bi' = IF r.ok THEN bi + 1 ELSE bi
    /\ UNCHANGED <<bands_opt, listing, apiRaises, d, metadata, region, run, first>>

\* grass.message("Completed %s reflectance rasters" % cnt)
Summary ==
    /\ pc = "import"
    /\ bi > Len(band_list)
    /\ log' = Append(log, Event("summary", <<>>, <<>>, NoExpr, TRUE))
    /\ pc' = "return"
    /\ UNCHANGED <<bands_opt, listing, apiRaises, d, metadata, bi, cnt, layers,
                   region, run, first, err>>

\* ------------------------------------------------------------------------
\* The script: main over a directory listing
\* ------------------------------------------------------------------------
Init ==
    /\ bands_opt \in BandsOptions
    /\ listing \in Listings(MaxScenes)
    /\ apiRaises \in BOOLEAN
    /\ pc = "main"
    /\ d = 1
    /\ metadata = NewDict
    /\ bi = 1
    /\ cnt = 0
    /\ layers = NoLayers
    /\ region = <<>>
    /\ log = <<>>
    /\ run = 1
    /\ first = NoFirst
    /\ err = ""

Next ==
    \/ NextDir
    \/ GetMetadata
    \/ Import
    \/ SetRegion
    \/ Calc
    \/ Summary
    \/ Return

Spec == Init /\ [][Next]_vars

\* ------------------------------------------------------------------------
\* get_metadata alone, on the files built from ParseLinesSet
\* ------------------------------------------------------------------------
InitParse ==
    /\ bands_opt = <<>>
    /\ \E ls \in SeqsUpTo(ParseLinesSet, MaxLines) :
          listing = <<[name |-> SceneName(1), isdir |-> TRUE,
                       mtl |-> File(ls), tifs |-> {}]>>
    /\ apiRaises = TRUE
    /\ pc = "meta"
    /\ d = 1
    /\ metadata = NewDict
    /\ bi = 1
    /\ cnt = 0
    /\ layers = NoLayers
    /\ region = <<>>
    /\ log = <<>>
    /\ run = 1
    /\ first = NoFirst
    /\ err = ""

SpecParse == InitParse /\ [][GetMetadata]_vars

\* ------------------------------------------------------------------------
\* dn_to_reflectance run twice on the same scene, table and band list
\* ------------------------------------------------------------------------
StaleLayers ==
    {NoLayers,
     Bind(NoLayers, Rast(SceneName(1), <<"1">>), <<"old">>),
     Bind(NoLayers, Rho(SceneName(1), <<"1">>), <<"old">>)}

InitTwice ==
    /\ bands_opt \in BandsOptions
    /\ \E f \in MtlFiles : \E t \in TifSets(f) :
          /\ listing = <<[name |-> SceneName(1), isdir |-> TRUE,
                          mtl |-> f, tifs |-> t]>>
          /\ metadata = get_metadata(f)
    /\ apiRaises \in BOOLEAN
    /\ pc = "import"
    /\ d = 1
    /\ bi = 1
    /\ cnt = 0
    /\ layers \in StaleLayers
    /\ region = <<>>
    /\ log = <<>>
    /\ run = 1
    /\ first = NoFirst
    /\ err = ""

\* The first run is over (returned or raised): the same call again.
Rerun ==
    /\ pc \in {"return", "error"}
    /\ run = 1
    /\ first' = [pc |-> pc, layers |-> layers, region |-> region, log |-> log]
    /\ run' = 2
    /\ pc' = "import"
    /\ bi' = 1
    /\ cnt' = 0
    /\ log' = <<>>
    /\ err' = ""
    /\ UNCHANGED <<bands_opt, listing, apiRaises, d, metadata, layers, region>>

NextTwice ==
    \/ Import
    \/ SetRegion
    \/ Calc
    \/ Summary
    \/ Rerun

SpecTwice == InitTwice /\ [][NextTwice]_vars

\* ------------------------------------------------------------------------
\* Properties
\* ------------------------------------------------------------------------
Relevant(line) == Contains(line, MULT) \/ Contains(line, ADD) \/ Contains(line, SUN)
LeftOf(line) == SubSeq(line, 1, FirstIdx(line, "=") - 1)
RightOf(line) == SubSeq(line, FirstIdx(line, "=") + 1, Len(line))
\* key=value on the first '=': there is one and a number follows it.
Parseable(line) == Contains(line, "=") /\ IsFloat(RightOf(line))
Malformed(line) == Relevant(line) /\ ~Parseable(line)

RelevantIdx(ls) == {i \in 1..Len(ls) : Relevant(ls[i])}
LastWith(ls, k) ==
    CHOOSE i \in RelevantIdx(ls) :
        /\ Strip(LeftOf(ls[i])) = k
        /\ \A j \in RelevantIdx(ls) : Strip(LeftOf(ls[j])) = k => j <= i
\* The table the file denotes: key left of the first '=', number right of it,
\* the last line of a key deciding.
TableOf(ls) ==
    [k \in {Strip(LeftOf(ls[i])) : i \in RelevantIdx(ls)} |->
        FloatVal(RightOf(ls[LastWith(ls, k)]))]
\* What splitting on the first '=' only makes of one relevant line.
FirstSplitOutcome(line) ==
    IF Parseable(line)
    THEN [ok |-> TRUE, err |-> "",
          tab |-> [k \in {Strip(LeftOf(line))} |-> FloatVal(RightOf(line))]]
    ELSE Raise("ValueError")

Parsed == pc # "meta"
FileLines == listing[1].mtl.lines

\* C1: when every relevant line of the file is parseable, get_metadata
\* returns the table mapping the trimmed text left of the first '=' of each
\* relevant line to the number right of it and nothing else, the last
\* occurrence of a key deciding; and each relevant line fares as it would if
\* it were split on its first '=' only.
C1_TableOfFile ==
    Parsed =>
        /\ (\A i \in RelevantIdx(FileLines) : Parseable(FileLines[i]))
              => (metadata.ok /\ metadata.tab = TableOf(FileLines))
        /\ \A i \in RelevantIdx(FileLines) :
              ParseLine(NewDict, FileLines[i]) = FirstSplitOutcome(FileLines[i])

\* A file whose two lines give the same key different values has been parsed.
C1_Witness ==
    /\ Parsed /\ metadata.ok
    /\ Len(FileLines) = 2
    /\ RelevantIdx(FileLines) = {1, 2}
    /\ Strip(LeftOf(FileLines[1])) = Strip(LeftOf(FileLines[2]))
    /\ FloatVal(RightOf(FileLines[1])) # FloatVal(RightOf(FileLines[2]))

Scenes == 1..Len(listing)
EngineOps == {"import", "region", "mapcalc"}
CallsOf(s, ops) == {i \in 1..Len(log) : log[i].scene = s /\ log[i].op \in ops}
\* dn_to_reflectance is running, or has ended, for scene s.
InCalc(s) == d = s /\ pc \in {"import", "region", "calc", "return", "error"}
TableOfScene(s) == get_metadata(listing[s].mtl)
LacksIn(t, b) ==
    t.ok /\ (MultKey(b) \notin DOMAIN t.tab \/ AddKey(b) \notin DOMAIN t.tab)
Lacks(s, b) == listing[s].isdir /\ LacksIn(TableOfScene(s), b)

\* C2: a requested band whose MULT or ADD key is missing from the scene's
\* table never gets a mapcalc call, and dn_to_reflectance of that scene
\* does not get past that band nor return: it ends in an error.
C2_MissingKeyNoMapcalc ==
    \A s \in Scenes :
        listing[s].isdir =>
            LET t == TableOfScene(s)
            IN \A i \in 1..Len(band_list) :
                  LacksIn(t, band_list[i]) =>
                      /\ d <= s
                      /\ \A j \in CallsOf(s, {"mapcalc"}) :
                            log[j].band # band_list[i]
                      /\ InCalc(s) => (bi <= i /\ pc # "return")

\* The second band of the list lacks its keys and the run ended on it with a
\* KeyError, after the first band was computed.
C2_Witness ==
    /\ pc = "error" /\ err = "KeyError"
    /\ bi = 2 /\ d \in Scenes
    /\ Lacks(d, band_list[2])
    /\ CallsOf(d, {"mapcalc"}) # {}

HasMalformed(s) ==
    /\ listing[s].isdir
    /\ listing[s].mtl.exists
    /\ \E i \in 1..Len(listing[s].mtl.lines) : Malformed(listing[s].mtl.lines[i])

\* C3: a scene whose metadata file has a marker line without '=' or without
\* a number right of it makes get_metadata raise: no table is returned, the
\* script stops there, and no engine call is ever made for that scene.
C3_MalformedStopsBeforeEngine ==
    \A s \in Scenes :
        HasMalformed(s) =>
            /\ d <= s
            /\ CallsOf(s, EngineOps) = {}
            /\ (d = s /\ pc \notin {"main", "meta"}) =>
                  /\ pc = "error" /\ err = "ValueError"
                  /\ ~metadata.ok /\ metadata.tab = EmptyTab

\* The second scene's file is malformed and its parse has raised, after the
\* first scene went through the engine.
C3_Witness ==
    /\ d = 2 /\ Len(listing) = 2 /\ HasMalformed(2)
    /\ pc = "error" /\ err = "ValueError"
    /\ CallsOf(1, {"mapcalc"}) # {}

NoMetadataFile(s) == listing[s].isdir /\ ~listing[s].mtl.exists

\* C4: a scene directory without <scene>_MTL.txt ends the processing in an
\* error; it is not skipped, and no import and no mapcalc call is made for it.
C4_MissingFileIsFatal ==
    \A s \in Scenes :
        NoMetadataFile(s) =>
            /\ d <= s
            /\ CallsOf(s, {"import", "mapcalc"}) = {}
            /\ (d = s /\ pc \notin {"main", "meta"}) =>
                  (pc = "error" /\ err = "IOError")

\* The open() of a scene without metadata file has raised, bands being
\* requested.
C4_Witness ==
    /\ d \in Scenes /\ NoMetadataFile(d)
    /\ pc = "error" /\ err = "IOError"
    /\ band_list # <<<<>>>>

MapcalcCalls == {i \in 1..Len(log) : log[i].op = "mapcalc"}

\* C5: the zenith angle of every submitted expression is 90.0 minus the
\* SUN_ELEVATION value of the scene's table, exactly.
C5_ZenithExact ==
    \A i \in MapcalcCalls :
        log[i].expr.zenith =
            90 * Pow10(Prec) - TableOfScene(log[i].scene).tab[SunKey]

\* C6: a second run of dn_to_reflectance on the same scene, table and band
\* list ends as the first did, having submitted the same calls, and leaves
\* the layer namespace the first run left.
C6_SecondRunSame ==
    (run = 2 /\ pc \in {"return", "error"}) =>
        /\ layers = first.layers
        /\ log = first.log
        /\ pc = first.pc

\* Both runs went through two bands, the first run having replaced a layer
\* that was there before.
C6_Witness ==
    /\ run = 2 /\ pc = "return"
    /\ cnt = 2
    /\ \E n \in DOMAIN layers : layers[n] # <<"old">> /\ n \in {Rast(SceneName(1), <<"1">>), Rho(SceneName(1), <<"1">>)}
    /\ \E i \in 1..Len(first.log) : first.log[i].op = "mapcalc"

\* C7: a failed import or mapcalc call is the last call of the script: it
\* is not issued again, no mapcalc follows a failed import, no later band is
\* imported or evaluated, and the script has ended in an error.
C7_FailurePropagated ==
    \A i \in 1..Len(log) :
        (log[i].op \in {"import", "mapcalc"} /\ ~log[i].ok) =>
            (i = Len(log) /\ pc = "error")

\* The calls of one scene for the band list: read, then import, region,
\* mapcalc per band, then the summary.
SceneOps(s) ==
    [k \in 1..(3 * Len(band_list) + 2) |->
        IF k = 1 THEN [op |-> "read", scene |-> s, pos |-> 0]
        ELSE IF k = 3 * Len(band_list) + 2 THEN [op |-> "summary", scene |-> s, pos |-> 0]
        ELSE [op |-> <<"import", "region", "mapcalc">>[((k - 2) % 3) + 1],
              scene |-> s, pos |-> ((k - 2) \div 3) + 1]]

RECURSIVE AllOps(_)
AllOps(s) ==
    IF s > Len(listing) THEN <<>>
    ELSE (IF listing[s].isdir THEN SceneOps(s) ELSE <<>>) \o AllOps(s + 1)

Shape(e) ==
    [op |-> e.op, scene |-> e.scene,
     pos |-> IF e.op \in EngineOps THEN e.pos ELSE 0]

\* C8: the calls are made strictly in sequence: per scene the metadata read,
\* then per band of the list one import, one set-region on the imported
\* layer and one mapcalc, in that order, bands in list order and scenes in
\* listing order; the summary of a scene that completes reports as many
\* rasters as the band list has entries.
C8_SequentialCalls ==
    LET ops == AllOps(1)
    IN /\ Len(log) <= Len(ops)
       /\ \A k \in 1..Len(log) :
             /\ Shape(log[k]) = ops[k]
             /\ log[k].op \in EngineOps => log[k].band = band_list[log[k].pos]
             /\ log[k].op = "region" => log[k].layer = log[k-1].layer
             /\ log[k].op = "summary" => log[k].cnt = Len(band_list)

\* Two scenes of two bands each went through completely.
C8_Witness ==
    /\ pc = "done"
    /\ Len(band_list) = 2
    /\ Len(log) = 16

\* C9: the expression submitted for band b of scene S names the layers
\* after lower-cased S and b, and carries the REFLECTANCE_MULT_BAND_<b> and
\* REFLECTANCE_ADD_BAND_<b> values of S's own table, unaltered.
C9_ExprOfOwnTable ==
    \A i \in MapcalcCalls :
        LET e == log[i].expr
            b == log[i].band
            name == listing[log[i].scene].name
            t == TableOfScene(log[i].scene).tab
        IN /\ e.rast = Lower(name) \o <<"_b">> \o b
           /\ e.out = e.rast \o <<"_reflect">>
           /\ e.mult = t[MultKey(b)]
           /\ e.add = t[AddKey(b)]

PositiveInt(b) == b # <<>> /\ AllDigits(b) /\ DigitsVal(b) > 0

\* C10: every band an import call is issued for is a positive integer.
C10_ImportedBandsPositive ==
    \A i \in 1..Len(log) : log[i].op = "import" => PositiveInt(log[i].band)

====
